---- MODULE Spec2Model ----
(***************************************************************************)
(* tasks/statutes.py: conversion of GPO Fdsys STATUTE metadata (mods.xml)  *)
(* into bill files.  One call of proc_statute handles one volume; its loop *)
(* body handles one <relatedItem>.  Attribute and text values are strings, *)
(* as lxml returns them.                                                   *)
(***************************************************************************)
EXTENDS Naturals, Sequences, FiniteSets, TLC

\* ------------------------------------------------------------------ bounds

MaxItems == 2
MaxBatches == 2

\* ------------------------------------------------------- the input documents

\* The result of find() when no element matches (Python's None).
NoElement == [tag |-> "None"]

Element(tag, text) == [tag |-> tag, text |-> text]

GranuleClasses ==
  {"PUBLICLAW", "PRIVATELAW", "HCONRES", "SCONRES", "CONSTAMEND", "FRONTMATTER"}

Congresses == {"82", "83"}

\* <bill congress= type= number=>
BillElements == [congress : Congresses, type : {"HR"}, number : {"1"}]

\* <law congress= number= isPrivate=>
LawElements == [congress : Congresses, number : {"100"}, isPrivate : {"true", "false"}]

\* A second sub-record, where the metadata lists more than one.
ExtraBill == [congress |-> "83", type |-> "S", number |-> "2"]
ExtraLaw == [congress |-> "83", number |-> "101", isPrivate |-> "false"]

\* No, one or two <bill> sub-records; no, one or two <law> sub-records.
BillLists ==
  {<<>>} \cup {<<b>> : b \in BillElements}
         \cup {<<b, ExtraBill>> : b \in {e \in BillElements : e.congress = "82"}}

LawLists ==
  {<<>>} \cup {<<l>> : l \in LawElements}
         \cup {<<l, ExtraLaw>> : l \in {e \in LawElements : e.congress = "83" /\ e.isPrivate = "false"}}

ProposedValues ==
  {NoElement, Element("isProposedAmendment", "true"), Element("isProposedAmendment", "false")}

OriginValues ==
  {NoElement, Element("originChamber", "HOUSE"), Element("originChamber", "SENATE")}

GranuleDate == "1951-01-02"
PdfUrl == "STATUTE-65-Pg1.pdf"

\* The <relatedItem> elements of a volume.  isProposedAmendment is read for
\* CONSTAMEND items only, and originChamber only for items of the three
\* resolution classes that carry no <law>; elsewhere they are left out.
\* Front matter carries no <law> and at most one <bill>; a resolution or an
\* amendment carries at most one <bill>, and at most one <law>, a public one.
Items ==
  { it \in [granuleClass : GranuleClasses,
            isProposedAmendment : ProposedValues,
            originChamber : OriginValues,
            bills : BillLists,
            laws : LawLists] :
      /\ it.granuleClass # "CONSTAMEND" => it.isProposedAmendment = NoElement
      /\ (it.granuleClass \notin {"HCONRES", "SCONRES", "CONSTAMEND"} \/ it.laws # <<>>)
           => it.originChamber = NoElement
      /\ it.granuleClass = "FRONTMATTER" => Len(it.bills) <= 1 /\ it.laws = <<>>
      /\ it.granuleClass \in {"HCONRES", "SCONRES", "CONSTAMEND"}
           => /\ Len(it.bills) <= 1
              /\ Len(it.laws) <= 1
              /\ \A i \in DOMAIN it.laws : it.laws[i].isPrivate = "false" }

NoItem ==
  [granuleClass |-> "NONE", isProposedAmendment |-> NoElement,
   originChamber |-> NoElement, bills |-> <<>>, laws |-> <<>>]

\* ------------------------------------------------------------ Python values

\* A local variable that no assignment has reached yet.
Unbound == "UNBOUND"

NoAction == [type |-> "none"]
NoRecord == [bill_id |-> "none"]

\* str.lower() on the bill types of the documents.
Lower(s) ==
  CASE s = "HR" -> "hr"
    [] s = "S" -> "s"
    [] OTHER -> s

\* str.capitalize() on the two law types.
Capitalize(s) ==
  CASE s = "public" -> "Public"
    [] s = "private" -> "Private"
    [] OTHER -> s

\* element == "..." : lxml elements define no __eq__, so an element never
\* equals a str.
ElementEqualsStr(e, s) == FALSE

\* ------------------------------------------------- the body of the item loop

\* The class list with FRONTMATTER let through.
QualifyingClasses_WithFrontMatter ==
  {"PUBLICLAW", "PRIVATELAW", "HCONRES", "SCONRES", "CONSTAMEND", "FRONTMATTER"}

QualifyingClasses == {"PUBLICLAW", "PRIVATELAW", "HCONRES", "SCONRES", "CONSTAMEND"}

ResolutionClasses == {"HCONRES", "SCONRES", "CONSTAMEND"}

\* "Proposal or ratification notice?"
IsRatificationNotice(item) ==
  \/ item.isProposedAmendment = NoElement
  \/ ElementEqualsStr(item.isProposedAmendment, "false")

\* The test len( bill_elements ) >= 1 in place of > 1.
MultipleBillsErrors_FromOne(bill_elements) ==
  IF Len(bill_elements) >= 1 THEN <<"Multiple bills associated">> ELSE <<>>

MultipleBillsErrors(bill_elements) ==
  IF Len(bill_elements) > 1 THEN <<"Multiple bills associated">> ELSE <<>>

MultipleLawsErrors(law_elements) ==
  IF Len(law_elements) > 1 THEN <<"Multiple laws associated">> ELSE <<>>

BillType(bill_elements) == Lower(bill_elements[1].type)

BillId(bill_elements) ==
  BillType(bill_elements) \o bill_elements[1].number \o "-" \o bill_elements[1].congress

\* The table with the chambers not exchanged.
OtherChamber_SameChamber == [c \in {"HOUSE", "SENATE"} |-> IF c = "HOUSE" THEN "h" ELSE "s"]

\* other_chamber = { "HOUSE": "s", "SENATE": "h" }
OtherChamber == [c \in {"HOUSE", "SENATE"} |-> IF c = "HOUSE" THEN "s" ELSE "h"]

\* The lookup other_chamber[find(originChamber).text] raises AttributeError
\* when the element is missing and KeyError when its text is no key.
OriginLookupRaises(item) ==
  \/ item.originChamber = NoElement
  \/ item.originChamber.text \notin DOMAIN OtherChamber

VoteAction(item) ==
  [type |-> "vote",
   vote_type |-> "vote2",
   where |-> OtherChamber[item.originChamber.text],
   result |-> "pass",
   how |-> "unknown",
   acted_at |-> GranuleDate,
   status |-> IF item.granuleClass = "CONSTAMEND"
                THEN "PASSED:CONSTAMEND" ELSE "PASSED:CONCURRENTRES"]

LawType(law) == IF law.isPrivate = "true" THEN "private" ELSE "public"

\* The action text with law_type not capitalized.
EnactedAction_LowerCaseText(law_elements) ==
  [congress |-> law_elements[1].congress,
   number |-> law_elements[1].number,
   type |-> "enacted",
   law |-> LawType(law_elements[1]),
   text |-> "Became " \o LawType(law_elements[1]) \o " Law No: "
              \o law_elements[1].congress \o "-" \o law_elements[1].number \o ".",
   acted_at |-> GranuleDate,
   status |-> "ENACTED:SIGNED"]

EnactedAction(law_elements) ==
  [congress |-> law_elements[1].congress,
   number |-> law_elements[1].number,
   type |-> "enacted",
   law |-> LawType(law_elements[1]),
   text |-> "Became " \o Capitalize(LawType(law_elements[1])) \o " Law No: "
              \o law_elements[1].congress \o "-" \o law_elements[1].number \o ".",
   acted_at |-> GranuleDate,
   status |-> "ENACTED:SIGNED"]

\* The congress check left out.
CongressMismatch_Never(law_congress, bill_congress) == FALSE

\* "Check for typos in the metadata."
CongressMismatch(law_congress, bill_congress) == law_congress # bill_congress

\* bill_info.latest_status: the status and date of the last action that has one.
LatestStatus(actions) ==
  [status |-> actions[Len(actions)].status, status_date |-> actions[Len(actions)].acted_at]

\* The record with status_at read from the clock as well.
BillData_StatusAtNow(bill_elements, actions, t) ==
  [bill_id |-> BillId(bill_elements),
   bill_type |-> BillType(bill_elements),
   number |-> bill_elements[1].number,
   congress |-> bill_elements[1].congress,
   actions |-> actions,
   status |-> LatestStatus(actions).status,
   status_at |-> t,
   updated_at |-> t]

BillData(bill_elements, actions, t) ==
  [bill_id |-> BillId(bill_elements),
   bill_type |-> BillType(bill_elements),
   number |-> bill_elements[1].number,
   congress |-> bill_elements[1].congress,
   actions |-> actions,
   status |-> LatestStatus(actions).status,
   status_at |-> LatestStatus(actions).status_date,
   updated_at |-> t]

BillVersionId(bill_elements) ==
  BillType(bill_elements) \o bill_elements[1].number \o "-"
    \o bill_elements[1].congress \o "-" \o "enr"

BillVersion(bill_elements, actions) ==
  [bill_version_id |-> BillVersionId(bill_elements),
   version_code |-> "enr",
   issued_on |-> LatestStatus(actions).status_date,
   urls |-> [pdf |-> PdfUrl]]

\* What running pdftotext can do: succeed, fail to start because the program
\* is missing (errno 2) or for another reason, or exit with a non-zero status.
ToolOutcomes == {"ok", "OSError:2", "OSError:13", "CalledProcessError"}

\* output_bill_plaintext re-raises OSError and swallows CalledProcessError.
ToolRaisesOSError(o) == o \in {"OSError:2", "OSError:13"}

ToolErrors(o) == IF o = "OSError:2" THEN <<"pdftotext not available">> ELSE <<>>

\* An item that is left by "continue" before anything is written.
Skipped(kind, errors, law_congress, plaintext, action) ==
  [outcome |-> kind, errors |-> errors, action |-> action, law_congress |-> law_congress,
   plaintext |-> plaintext, bills |-> <<>>, stubs |-> <<>>, tool |-> "none",
   raised |-> FALSE]

\* An exception that leaves proc_statute.
Raised(kind, errors, law_congress, plaintext, action) ==
  [outcome |-> kind, errors |-> errors, action |-> action, law_congress |-> law_congress,
   plaintext |-> plaintext, bills |-> <<>>, stubs |-> <<>>, tool |-> "none",
   raised |-> TRUE]

\* From the congress check to the end of the loop body.
Finish(item, action, errors, law_congress, plaintext, t, tool) ==
  IF law_congress = Unbound
    THEN Raised("UnboundLocalError", errors, law_congress, plaintext, action)
  ELSE IF CongressMismatch(law_congress, item.bills[1].congress)
    THEN Skipped("mismatch", errors \o <<"Congress mismatch">>, law_congress, plaintext, action)
  ELSE
    [outcome |-> "saved",
     errors |-> IF plaintext THEN errors \o ToolErrors(tool) ELSE errors,
     action |-> action,
     law_congress |-> law_congress,
     plaintext |-> plaintext /\ ~ToolRaisesOSError(tool),
     bills |-> <<BillData(item.bills, <<action>>, t)>>,
     stubs |-> <<BillVersion(item.bills, <<action>>)>>,
     tool |-> IF plaintext THEN tool ELSE "none",
     raised |-> FALSE]

\* One pass through the loop body for `item`, entered with the locals
\* law_congress and plaintext as the earlier items left them.
ProcessItem(item, law_congress, plaintext, t, tool) ==
  IF item.granuleClass \notin QualifyingClasses
    THEN Skipped("skipped", <<>>, law_congress, plaintext, NoAction)
  ELSE IF item.granuleClass = "CONSTAMEND" /\ IsRatificationNotice(item)
    THEN Skipped("ratified", <<"Ratified">>, law_congress, plaintext, NoAction)
  ELSE IF item.bills = <<>>
    THEN Skipped("nobill", <<"Could not get bill data">>, law_congress, plaintext, NoAction)
  ELSE IF item.laws = <<>>
    THEN IF item.granuleClass \in ResolutionClasses
           THEN IF OriginLookupRaises(item)
                  THEN Raised("KeyError", MultipleBillsErrors(item.bills),
                              law_congress, plaintext, NoAction)
                  ELSE Finish(item, VoteAction(item), MultipleBillsErrors(item.bills),
                              law_congress, plaintext, t, tool)
           ELSE Skipped("nolaw",
                        MultipleBillsErrors(item.bills) \o <<"Could not get law data">>,
                        law_congress, plaintext, NoAction)
  ELSE Finish(item, EnactedAction(item.laws),
              MultipleBillsErrors(item.bills) \o MultipleLawsErrors(item.laws),
              item.laws[1].congress, plaintext, t, tool)

\* --------------------------------------------------------------- the state

VARIABLES
  pc,            \* "idle": between calls of proc_statute; "loop": inside its item loop
  options,       \* the options of the run
  batches,       \* the calls of proc_statute started so far
  now,           \* the clock that updated_at is read from
  nitems,        \* the items the current call has taken from the document
  plaintext,     \* proc_statute's local `plaintext`
  law_congress,  \* proc_statute's local `law_congress`
  store,         \* the bill files written by bill_info.output_bill, by bill id
  versions,      \* the bill version files written by utils.write, by version id
  last,          \* the item handled last and what the loop body did with it
  result,        \* how the call of proc_statute ended: "ok", "raised", or "none" so far
  toolFailed,    \* an invocation of pdftotext has raised OSError in this run
  doc,           \* the document of a repeated run
  snap           \* the files as the first of two runs left them

vars ==
  <<pc, options, batches, now, nitems, plaintext, law_congress, store, versions,
    last, result, toolFailed, doc, snap>>

NoFiles == [k \in {} |-> NoRecord]

\* Writing a file replaces the file of the same name.
WriteFile(files, name, content) ==
  [k \in DOMAIN files \cup {name} |-> IF k = name THEN content ELSE files[k]]

RECURSIVE WriteBills(_, _)
WriteBills(files, bills) ==
  IF bills = <<>> THEN files
  ELSE WriteBills(WriteFile(files, Head(bills).bill_id, Head(bills)), Tail(bills))

RECURSIVE WriteVersions(_, _)
WriteVersions(files, stubs) ==
  IF stubs = <<>> THEN files
  ELSE WriteVersions(WriteFile(files, Head(stubs).bill_version_id, Head(stubs)), Tail(stubs))

\* No item handled yet in this call.
NoLast ==
  [item |-> NoItem, outcome |-> "none", errors |-> <<>>, action |-> NoAction,
   bills |-> <<>>, stubs |-> <<>>, tool |-> "none"]

Init ==
  /\ pc = "idle"
  /\ options \in [plaintext : BOOLEAN]
  /\ batches = 0
  /\ now = 0
  /\ nitems = 0
  /\ plaintext = FALSE
  /\ law_congress = Unbound
  /\ store = NoFiles
  /\ versions = NoFiles
  /\ last = NoLast
  /\ result = "none"
  /\ toolFailed = FALSE
  /\ doc = <<>>
  /\ snap = [store |-> NoFiles, versions |-> NoFiles]

\* utils.process_set calls proc_statute for the next volume; proc_statute
\* reads the plaintext option and starts with no law_congress.  The clock has
\* advanced since the previous call.
EnterProcStatute ==
  /\ pc = "idle"
  /\ batches < MaxBatches
  /\ pc' = "loop"
  /\ batches' = batches + 1
  /\ now' = now + 1
  /\ nitems' = 0
  /\ plaintext' = options.plaintext
  /\ law_congress' = Unbound
  /\ last' = NoLast
  /\ result' = "none"
  /\ UNCHANGED <<options, store, versions, toolFailed>>

\* The loop body for one item, with pdftotext behaving as `tool` if it is run.
LoopBody(item, tool) ==
  LET r == ProcessItem(item, law_congress, plaintext, now, tool) IN
  /\ law_congress' = r.law_congress
  /\ plaintext' = r.plaintext
  /\ store' = WriteBills(store, r.bills)
  /\ versions' = WriteVersions(versions, r.stubs)
  /\ last' = [item |-> item, outcome |-> r.outcome, errors |-> r.errors,
              action |-> r.action, bills |-> r.bills, stubs |-> r.stubs, tool |-> r.tool]
  /\ toolFailed' = (toolFailed \/ ToolRaisesOSError(r.tool))
  /\ nitems' = nitems + 1
  /\ pc' = IF r.raised THEN "idle" ELSE "loop"
  /\ result' = IF r.raised THEN "raised" ELSE result
  /\ UNCHANGED <<options, batches, now>>

BeginBatch ==
  /\ doc = <<>>
  /\ EnterProcStatute
  /\ UNCHANGED <<doc, snap>>

\* The outcomes of pdftotext to consider for an item: all of them if the loop
\* body gets as far as running it.
ToolChoices(item) ==
  IF ProcessItem(item, law_congress, plaintext, now, "ok").tool = "none"
    THEN {"ok"} ELSE ToolOutcomes

ProcItem(item) ==
  /\ pc = "loop"
  /\ doc = <<>>
  /\ nitems < MaxItems
  /\ \E tool \in ToolChoices(item) : LoopBody(item, tool)
  /\ UNCHANGED <<doc, snap>>

\* The document has no further item: return {'ok': True, 'saved': True}.
EndBatch ==
  /\ pc = "loop"
  /\ doc = <<>>
  /\ pc' = "idle"
  /\ result' = "ok"
  /\ UNCHANGED <<options, batches, now, nitems, plaintext, law_congress, store,
                 versions, last, toolFailed, doc, snap>>

Next ==
  \/ BeginBatch
  \/ \E item \in Items : ProcItem(item)
  \/ EndBatch

Spec == Init /\ [][Next]_vars

\* ------------------------------------------- the same volume processed twice

\* The documents of a repeated run: one to MaxItems items.
Docs == UNION {[1..n -> Items] : n \in 1..MaxItems}

InitRerun ==
  /\ pc = "idle"
  /\ options \in [plaintext : BOOLEAN]
  /\ batches = 0
  /\ now = 0
  /\ nitems = 0
  /\ plaintext = FALSE
  /\ law_congress = Unbound
  /\ store = NoFiles
  /\ versions = NoFiles
  /\ last = NoLast
  /\ result = "none"
  /\ toolFailed = FALSE
  /\ doc \in Docs
  /\ snap = [store |-> NoFiles, versions |-> NoFiles]

\* The files as the first call leaves them, by return or by exception.
Snapshot ==
  snap' = IF pc' = "idle" /\ batches = 1
            THEN [store |-> store', versions |-> versions'] ELSE snap

BeginRun ==
  /\ doc # <<>>
  /\ EnterProcStatute
  /\ UNCHANGED <<doc, snap>>

\* The loop body for the next <relatedItem> of the document.
ReplayItem ==
  /\ pc = "loop"
  /\ doc # <<>>
  /\ nitems < Len(doc)
  /\ \E tool \in ToolChoices(doc[nitems + 1]) : LoopBody(doc[nitems + 1], tool)
  /\ Snapshot
  /\ UNCHANGED doc

EndRun ==
  /\ pc = "loop"
  /\ doc # <<>>
  /\ nitems = Len(doc)
  /\ pc' = "idle"
  /\ result' = "ok"
  /\ UNCHANGED <<options, batches, now, nitems, plaintext, law_congress, store,
                 versions, last, toolFailed, doc>>
  /\ Snapshot

NextRerun == BeginRun \/ ReplayItem \/ EndRun

SpecRerun == InitRerun /\ [][NextRerun]_vars

\* ------------------------------------------------------------- the claims

\* The text of an element, "" if there is none.
TextOf(e) == IF e = NoElement THEN "" ELSE e.text

\* This step is a pass through the loop body.
ItemStep == nitems' = nitems + 1

NothingPersisted == last.bills = <<>> /\ last.stubs = <<>>

\* The item came as far as the extraction of its <law> sub-records.
ReachedLawExtraction == last.outcome \notin {"none", "skipped", "ratified", "nobill"}

\* C1: a CONSTAMEND item whose isProposedAmendment is missing, or present with
\* the text "false", is a ratification notice: no bill file and no bill
\* version file is written for it.
C1_RatificationYieldsNothing ==
  ( /\ last.item.granuleClass = "CONSTAMEND"
    /\ \/ last.item.isProposedAmendment = NoElement
       \/ TextOf(last.item.isProposedAmendment) = "false" )
  => NothingPersisted

FreshMismatch ==
  /\ ReachedLawExtraction
  /\ last.item.laws # <<>>
  /\ last.item.laws[1].congress # last.item.bills[1].congress

\* C2 as stated: an item whose first <law> names another congress than its
\* first <bill> writes nothing and logs exactly one error, also when it
\* carries several <bill> or several <law> sub-records.
C2_MismatchLogsExactlyOneError ==
  FreshMismatch => NothingPersisted /\ Len(last.errors) = 1

\* C2, amended: such an item writes nothing and logs exactly one "Congress
\* mismatch" error; the errors logged for it are that one, preceded by one
\* "Multiple bills" error if it carries several <bill> sub-records and by one
\* "Multiple laws" error if it carries several <law> sub-records.
C2_MismatchLogsOneMismatchError ==
  FreshMismatch =>
    /\ NothingPersisted
    /\ last.outcome = "mismatch"
    /\ Cardinality({i \in DOMAIN last.errors : last.errors[i] = "Congress mismatch"}) = 1
    /\ Len(last.errors) = 1 + (IF Len(last.item.bills) > 1 THEN 1 ELSE 0)
                            + (IF Len(last.item.laws) > 1 THEN 1 ELSE 0)

C2_Witness ==
  /\ FreshMismatch
  /\ Len(last.item.bills) > 1
  /\ Len(last.item.laws) > 1
  /\ Len(last.errors) = 3

\* A resolution or proposed amendment with a bill reference, an origin
\* chamber and no law reference.
LawlessResolution(item) ==
  /\ \/ item.granuleClass \in {"HCONRES", "SCONRES"}
     \/ item.granuleClass = "CONSTAMEND" /\ TextOf(item.isProposedAmendment) = "true"
  /\ item.bills # <<>>
  /\ item.originChamber # NoElement
  /\ item.laws = <<>>

\* C3: a resolution or proposed amendment with a bill reference, an origin
\* chamber and no law reference always has exactly one bill file written,
\* holding its single vote action, wherever it stands in the document; it is
\* never skipped for a congress mismatch and never fails the batch.
C3_LawlessResolutionIsSaved ==
  (last.outcome # "none" /\ LawlessResolution(last.item)) =>
    /\ last.outcome = "saved"
    /\ Len(last.bills) = 1
    /\ last.bills[1].actions = <<last.action>>
    /\ last.action.type = "vote"

\* C4: once an invocation of pdftotext has raised OSError, no later item of
\* the run, in this or in a later volume, runs pdftotext again.
C4_ToolNeverRunsAgain ==
  [][(toolFailed /\ ItemStep) => last'.tool = "none"]_vars

\* C5: the action built for a resolution or amendment without a law
\* reference is a vote that passed by unknown means in the chamber opposite
\* to the origin chamber, with the status of its class.
C5_VoteInOtherChamber ==
  (last.action # NoAction /\ last.item.laws = <<>>) =>
    /\ last.item.granuleClass \in {"HCONRES", "SCONRES", "CONSTAMEND"}
    /\ last.action.type = "vote"
    /\ last.action.result = "pass"
    /\ last.action.how = "unknown"
    /\ TextOf(last.item.originChamber) \in {"HOUSE", "SENATE"}
    /\ TextOf(last.item.originChamber) = "HOUSE" => last.action.where = "s"
    /\ TextOf(last.item.originChamber) = "SENATE" => last.action.where = "h"
    /\ last.action.status = IF last.item.granuleClass = "CONSTAMEND"
                              THEN "PASSED:CONSTAMEND" ELSE "PASSED:CONCURRENTRES"

C5_Witness ==
  /\ last.item.laws = <<>>
  /\ last.item.granuleClass = "SCONRES"
  /\ TextOf(last.item.originChamber) = "SENATE"
  /\ last.action # NoAction
  /\ last.action.where = "h"
  /\ last.action.status = "PASSED:CONCURRENTRES"
  /\ last.outcome = "saved"

ValidLawItem(item) ==
  /\ item.granuleClass \in {"PUBLICLAW", "PRIVATELAW"}
  /\ item.bills # <<>>
  /\ item.laws # <<>>
  /\ item.laws[1].congress = item.bills[1].congress

\* C6: a PUBLICLAW or PRIVATELAW item whose law congress equals its bill
\* congress has exactly one bill file written, under the id
\* <type, lower-cased><number>-<congress>, whose single action is the
\* enactment: status ENACTED:SIGNED, law "private" if isPrivate is "true" and
\* "public" otherwise, text "Became <Public|Private> Law No: <congress>-<number>.".
\* Bill (82, HR, 1) with public law (82, 100) gives hr1-82 and
\* "Became Public Law No: 82-100.".
C6_ValidLawItemIsEnacted ==
  (last.outcome # "none" /\ ValidLawItem(last.item)) =>
    LET b == last.item.bills[1]
        l == last.item.laws[1]
        private == (l.isPrivate = "true")
    IN
    /\ Len(last.bills) = 1
    /\ last.bills[1].bill_id \in DOMAIN store
    /\ store[last.bills[1].bill_id] = last.bills[1]
    /\ last.bills[1].bill_id =
         (IF b.type = "HR" THEN "hr" ELSE "s") \o b.number \o "-" \o b.congress
    /\ Len(last.bills[1].actions) = 1
    /\ last.bills[1].actions[1].type = "enacted"
    /\ last.bills[1].actions[1].status = "ENACTED:SIGNED"
    /\ last.bills[1].actions[1].law = (IF private THEN "private" ELSE "public")
    /\ last.bills[1].actions[1].text =
         "Became " \o (IF private THEN "Private" ELSE "Public") \o " Law No: "
            \o l.congress \o "-" \o l.number \o "."
    /\ ( /\ b = [congress |-> "82", type |-> "HR", number |-> "1"]
         /\ l = [congress |-> "82", number |-> "100", isPrivate |-> "false"] )
       => /\ last.bills[1].bill_id = "hr1-82"
          /\ last.bills[1].actions[1].text = "Became Public Law No: 82-100."

C6_Witness ==
  /\ last.item.granuleClass = "PUBLICLAW"
  /\ last.item.bills = <<[congress |-> "82", type |-> "HR", number |-> "1"]>>
  /\ last.item.laws = <<[congress |-> "82", number |-> "100", isPrivate |-> "false"]>>
  /\ Len(last.bills) = 1
  /\ last.bills[1].bill_id = "hr1-82"
  /\ last.bills[1].actions[1].text = "Became Public Law No: 82-100."

StatusCodes == {"ENACTED:SIGNED", "PASSED:CONSTAMEND", "PASSED:CONCURRENTRES"}

\* C7: in every state of a run, every bill file holds exactly one action, the
\* action's status is ENACTED:SIGNED, PASSED:CONSTAMEND or
\* PASSED:CONCURRENTRES, and the congress of an enactment is the congress of
\* the bill.
C7_StoredRecordsAreSound ==
  \A id \in DOMAIN store :
    /\ Len(store[id].actions) = 1
    /\ store[id].actions[1].status \in StatusCodes
    /\ store[id].actions[1].type = "enacted"
         => store[id].actions[1].congress = store[id].congress

C7_Witness ==
  /\ \E id \in DOMAIN store : store[id].actions[1].type = "enacted"
  /\ \E id \in DOMAIN store : store[id].actions[1].type = "vote"

\* An item of which the documentation expects a bill file.
ValidItem(item) == ValidLawItem(item) \/ LawlessResolution(item)

\* C9: an item that fails extraction (no bill reference, no law reference on
\* a law item, a congress mismatch) is skipped alone: the next valid item of
\* the same volume still has its bill file written.
C9_NextValidItemIsSaved ==
  [][ ( /\ pc = "loop"
        /\ last.outcome \in {"nobill", "nolaw", "mismatch"}
        /\ NothingPersisted
        /\ ItemStep
        /\ ValidItem(last'.item) )
      => (last'.outcome = "saved" /\ Len(last'.bills) = 1 /\ pc' = "loop") ]_vars

\* ----------------------------------------------- claims on repeated volumes

\* The bill files without their updated_at timestamps.
WithoutTimestamps(files) ==
  [id \in DOMAIN files |-> [f \in DOMAIN files[id] \ {"updated_at"} |-> files[id][f]]]

SecondRunDone == doc # <<>> /\ batches = 2 /\ pc = "idle"

C10_OtherClassesAreSkipped ==
  /\ [][ (ItemStep /\ last'.item.granuleClass
                        \notin {"PUBLICLAW", "PRIVATELAW", "HCONRES", "SCONRES", "CONSTAMEND"})
         => /\ last'.bills = <<>> /\ last'.stubs = <<>>
            /\ last'.errors = <<>> /\ last'.tool = "none"
            /\ UNCHANGED <<store, versions, law_congress, plaintext, toolFailed, pc, result>>
       ]_vars
  /\ [] ( ( /\ batches = 1 /\ pc = "idle" /\ Len(doc) = 2
            /\ \E i, j \in 1..2 :
                 /\ i # j
                 /\ doc[i].granuleClass = "FRONTMATTER"
                 /\ ValidLawItem(doc[j]) )
          => result = "ok" /\ Cardinality(DOMAIN store) = 1 )

C10_Witness ==
  /\ batches = 1 /\ pc = "idle" /\ Len(doc) = 2
  /\ doc[1].granuleClass = "FRONTMATTER"
  /\ doc[1].bills # <<>>
  /\ ValidLawItem(doc[2])
  /\ last.item = doc[2]
  /\ Cardinality(DOMAIN store) = 1

====
